---- MODULE Spec2Model ----
(***************************************************************************)
(* The OAuth token lifecycle of saellis/board: the Tesla and Spotify data  *)
(* handlers, their token evaluators, the refresh and authorization paths,  *)
(* and the callback handlers, all coordinated through one blob store.      *)
(*                                                                         *)
(* Every invocation is a sequence of awaits.  One action of the model is   *)
(* the completion of one awaited operation (a store read or write landing, *)
(* a provider response arriving) together with the synchronous code that   *)
(* runs from there up to the next awaited call.                            *)
(***************************************************************************)
EXTENDS Integers, Sequences, FiniteSets, TLC

(***************************************************************************)
(* Bounds of the model.                                                    *)
(***************************************************************************)
NumReq == 2        \* data-request invocations that may run concurrently
MaxStates == 3     \* anti-forgery states generated in one behaviour
MaxTok == 2        \* token-bearing responses the provider issues
MaxCodes == 1      \* distinct authorization codes in callbacks
MaxTicks == 1      \* clock advances in one behaviour
PollBudget == 2    \* polling attempts where the property does not count them

(***************************************************************************)
(* Values.  JavaScript's null, undefined and "" are all falsy and are      *)
(* never told apart by this code: Absent stands for the three.  NaN is     *)
(* what arithmetic on an undefined expires_in yields.                      *)
(***************************************************************************)
Absent == 0
NaN == 0 - 1
maxPollAttempts == 60
SafetyMarginMs == 60000
MsPerSecond == 1000
TickMs == SafetyMarginMs
StartTime == 2 * SafetyMarginMs

Requests == 1 .. NumReq
Codes == 1 .. MaxCodes
Forged == MaxStates + 1      \* a state value no authorization attempt generated
ExpiresIns == {NaN, 60, 120} \* expires_in of a token response (NaN: field missing)

Deployments == {"tesla_store_code", "tesla_direct", "spotify"}

\* process.env of the deployment: whether the provider's client id and client
\* secret are set (1) or not (Absent), and the API key of the board (1) if
\* one is set.
Envs == [CLIENT_ID : {Absent, 1}, CLIENT_SECRET : {Absent, 1},
         API_KEY : {Absent, 1}]

\* The x-api-key header of a data request: missing, the key 1 or the key 2.
ApiKeys == {Absent, 1, 2}

VARIABLES
    env,         \* the environment variables the handlers read
    deployed,    \* which provider's handlers (and which Tesla callback) are deployed
    now,         \* Date.now()
    store,       \* the 'tokens' blob store, one field per key
    req,         \* data-request invocations
    cb,          \* the callback invocation
    nextState,   \* states generated so far + 1
    nextTok,     \* token-bearing provider responses so far + 1
    exchanged,   \* per code: authorization_code requests the provider received
    ghost        \* history kept for the properties; no handler reads it

vars == <<env, deployed, now, store, req, cb, nextState, nextTok, exchanged, ghost>>

Truthy(x) == x # Absent /\ x # NaN
Gt(a, b) == a # NaN /\ b # NaN /\ a > b
Sat(n) == IF n < 2 THEN n + 1 ELSE 2

(***************************************************************************)
(* Provider token endpoint: the responses it may give to one request.      *)
(***************************************************************************)
NoData == [kind |-> "none", access_token |-> Absent, refresh_token |-> Absent,
           expires_in |-> NaN]

TokenResponses(t) ==
    {[NoData EXCEPT !.kind = "throw"]}
    \cup {[NoData EXCEPT !.kind = "notok"], [NoData EXCEPT !.kind = "ok"]}
    \cup {[NoData EXCEPT !.kind = "notok", !.access_token = t]}
    \cup {[kind |-> "ok", access_token |-> t, refresh_token |-> r, expires_in |-> e] :
            r \in {Absent, t}, e \in ExpiresIns}

\* The success test without its data.access_token half.
isSuccessOnStatusOnly(data) == data.kind = "ok"

\* response.ok && data.access_token
isSuccess(data) == data.kind = "ok" /\ Truthy(data.access_token)

\* Date.now() + (data.expires_in * 1000) - 60000
computeExpiresAt(n, expires_in) ==
    IF expires_in = NaN THEN NaN ELSE n + (expires_in * MsPerSecond) - SafetyMarginMs

\* JSON.stringify of a number: NaN is written as null
jsonNumber(x) == IF x = NaN THEN Absent ELSE x

(***************************************************************************)
(* Shapes of the state.                                                    *)
(***************************************************************************)
NoBlob == <<>>       \* a JSON blob that holds null (or was never written)

EmptyStore ==
    [tesla_access_token |-> NoBlob,
     tesla_current_state |-> Absent,
     tesla_current_auth_code |-> Absent,
     spotify_access_token |-> NoBlob,
     spotify_refresh_token |-> Absent,
     spotify_expires_at |-> <<>>,
     spotify_auth_state |-> Absent]

\* A data-request invocation: its position and its local variables; decision
\* and outcome record the branch it took and how it ended, caught that the
\* catch block of getValidTeslaToken is running, apiKey the x-api-key header
\* it came with (kept until its response is computed).
IdleReq ==
    [pc |-> "idle", tokenData |-> NoBlob, refreshToken |-> Absent,
     expiresAt |-> NaN, state |-> Absent, code |-> Absent, pollAttempts |-> 0,
     data |-> NoData, accessToken |-> Absent, statusCode |-> 0,
     body |-> "none", decision |-> "none", outcome |-> "none",
     caught |-> FALSE, apiKey |-> Absent]

\* The error text (or the data) in the body of the data handlers' response on
\* each return path; an exception that leaves the handler gives no response.
responseBody(statusCode, outcome) ==
    CASE outcome \in {"timeout", "exchangeFailed", "storeFailed"} ->
             "Failed to obtain a valid Tesla access token."
      [] outcome = "authorizationNeeded" ->
             "Authorization required. Check your notifications for the Spotify OAuth URL."
      [] outcome \in {"threw", "storeThrew"} -> "none"
      [] outcome = "notConfigured" -> "API credentials are not configured"
      [] outcome = "badApiKey" -> "Unauthorized"
      [] outcome = "unauthorized" ->
             IF statusCode = 200 THEN "Nothing playing"
             ELSE "Failed to get Tesla products or no energy site found."
      [] OTHER -> IF statusCode = 200 THEN "data" ELSE "Failed to fetch data"

\* A finished data request: what it answered and how it got there.
finished(statusCode, outcome) ==
    [IdleReq EXCEPT !.pc = "done", !.statusCode = statusCode,
                    !.body = responseBody(statusCode, outcome),
                    !.outcome = outcome]

\* A callback invocation: its query parameters and local variables.
IdleCb ==
    [pc |-> "idle", state |-> Absent, code |-> Absent,
     data |-> NoData, expiresAt |-> NaN, statusCode |-> 0]

\* expiresNumber: the number whose String was last written to the Spotify
\* expiry key (Absent once the key is cleared).  rejected: the provider has
\* answered a refresh request with a non-success response and no code
\* exchange has written token data since.  redeemed: the <<state, code>>
\* parameters of the direct-exchange callbacks whose request the provider
\* answered with a token.  announced: per Spotify access token, the instant
\* its response arrived plus the expires_in of that response (NaN without
\* one); a Tesla record keeps its token and its expiry in one blob.
NoHistory ==
    [expiresNumber |-> Absent, rejected |-> FALSE, redeemed |-> {},
     announced |-> [t \in 1..MaxTok |-> NaN]]

Init ==
    /\ env \in Envs
    /\ deployed \in Deployments
    /\ now = StartTime
    /\ store = EmptyStore
    /\ req = [p \in Requests |-> IdleReq]
    /\ cb = IdleCb
    /\ nextState = 1
    /\ nextTok = 1
    /\ exchanged = [c \in Codes |-> 0]
    /\ ghost = NoHistory

Tesla == deployed \in {"tesla_store_code", "tesla_direct"}

\* The history once a Spotify token response has arrived: the expiry it
\* announces.
announce(data) ==
    [ghost EXCEPT !.announced[data.access_token] =
        IF data.expires_in = NaN THEN NaN
        ELSE now + (data.expires_in * MsPerSecond)]

\* The API-key test without its !providedApiKey half.
apiKeyRejectedOnMismatch(providedApiKey, boardApiKey) ==
    providedApiKey # boardApiKey

\* !providedApiKey || providedApiKey !== BOARD_API_KEY
apiKeyRejected(providedApiKey, boardApiKey) ==
    ~Truthy(providedApiKey) \/ providedApiKey # boardApiKey

\* The header values the handlers let through, and an invocation that came
\* with one of them.
AcceptedKeys == {key \in ApiKeys : ~apiKeyRejected(key, env.API_KEY)}
Invocation == [IdleReq EXCEPT !.apiKey = CHOOSE key \in AcceptedKeys : TRUE]

\* The handler is invoked with a header it rejects: it answers 401 at once.
unauthorized(p) ==
    /\ req[p].pc \in {"idle", "done"}
    /\ \E key \in ApiKeys \ AcceptedKeys :
          req' = [req EXCEPT ![p] =
                     [finished(401, "badApiKey") EXCEPT !.apiKey = key]]
    /\ UNCHANGED <<ghost, env, deployed, now, store, cb, nextState, nextTok,
                   exchanged>>

\* The credentials test of the data handlers with only the client id tested.
hasClientId(e) == Truthy(e.CLIENT_ID)

\* The credentials test of the data handlers: both values are set.
hasCredentials(e) == Truthy(e.CLIENT_ID) /\ Truthy(e.CLIENT_SECRET)

\* The handler is invoked without the credentials: it answers 500 at once.
notConfigured(p) ==
    /\ AcceptedKeys # {}
    /\ ~hasCredentials(env)
    /\ req[p].pc \in {"idle", "done"}
    /\ req' = [req EXCEPT ![p] =
                  [finished(500, "notConfigured") EXCEPT
                      !.apiKey = Invocation.apiKey]]
    /\ UNCHANGED <<ghost, env, deployed, now, store, cb, nextState, nextTok,
                   exchanged>>

\* Every data request may come to need a state of its own.  A request is
\* admitted only while one is left for it and for each request in flight that
\* has not generated its state yet, so that MaxStates never stops a request
\* half-way.
InFlightWithoutState ==
    {q \in Requests : req[q].pc \notin {"idle", "done"} /\ req[q].state = Absent}
Admitted == nextState + Cardinality(InFlightWithoutState) <= MaxStates

(***************************************************************************)
(* tesla.js: getValidTeslaToken, refreshTeslaTokenWithBlob, authorize and  *)
(* the data handler.                                                       *)
(***************************************************************************)

\* getValidTeslaToken with the expiry compared by >= instead of >.
teslaEvaluateAtOrAfter(tokenData, n) ==
    IF /\ tokenData # NoBlob
       /\ Truthy(tokenData[1].accessToken)
       /\ Truthy(tokenData[1].expiresAt)
       /\ ~Gt(n, tokenData[1].expiresAt)
    THEN "UseCached"
    ELSE IF tokenData # NoBlob /\ Truthy(tokenData[1].refreshToken)
    THEN "Refresh"
    ELSE "Reauthorize"

\* The branch getValidTeslaToken takes on the blob it read.
teslaEvaluate(tokenData, n) ==
    IF /\ tokenData # NoBlob
       /\ Truthy(tokenData[1].accessToken)
       /\ Truthy(tokenData[1].expiresAt)
       /\ Gt(tokenData[1].expiresAt, n)
    THEN "UseCached"
    ELSE IF tokenData # NoBlob /\ Truthy(tokenData[1].refreshToken)
    THEN "Refresh"
    ELSE "Reauthorize"

\* refreshTeslaTokenWithBlob persisting data.refresh_token with no fallback.
refreshedRecordNoFallback(data, refreshToken, expiresAt) ==
    [accessToken |-> data.access_token,
     refreshToken |-> data.refresh_token,
     expiresAt |-> jsonNumber(expiresAt)]

\* refreshTeslaTokenWithBlob taking the fallback refresh token from the record
\* the store holds at the time of the write.
refreshedRecordFromStore(data, refreshToken, expiresAt) ==
    [accessToken |-> data.access_token,
     refreshToken |-> IF Truthy(data.refresh_token) THEN data.refresh_token
                      ELSE IF store.tesla_access_token # NoBlob
                      THEN store.tesla_access_token[1].refreshToken
                      ELSE refreshToken,
     expiresAt |-> jsonNumber(expiresAt)]

\* The object refreshTeslaTokenWithBlob persists after a successful refresh.
refreshedRecord(data, refreshToken, expiresAt) ==
    [accessToken |-> data.access_token,
     refreshToken |-> IF Truthy(data.refresh_token) THEN data.refresh_token
                      ELSE refreshToken,
     expiresAt |-> jsonNumber(expiresAt)]

\* authorize persisting a record whose access token is read from a field the
\* provider's answer does not have.
exchangedRecordWithoutToken(data, expiresAt) ==
    [accessToken |-> Absent,
     refreshToken |-> data.refresh_token,
     expiresAt |-> jsonNumber(expiresAt)]

\* The object authorize and the direct-exchange callback persist.
exchangedRecord(data, expiresAt) ==
    [accessToken |-> data.access_token,
     refreshToken |-> data.refresh_token,
     expiresAt |-> jsonNumber(expiresAt)]

\* authorize up to its first await: the state is generated and the URL that
\* carries it is logged; store.set(CURRENT_STATE_BLOB_KEY, state) is pending.
authorizeEntry(r) ==
    [r EXCEPT !.pc = "setState", !.state = nextState, !.code = Absent,
              !.pollAttempts = 0, !.refreshToken = Absent]

\* The refresh token of refreshTeslaToken, which getValidTeslaToken never
\* calls: TESLA_REFRESH_TOKEN, a name tesla.js does not define.
refreshTokenOfGlobal(tokenData) == Absent

\* The refresh token getValidTeslaToken hands to refreshTeslaTokenWithBlob,
\* which puts it in the payload of the refresh request.
refreshTokenOfRecord(tokenData) == tokenData[1].refreshToken

\* The handler is invoked; store.get of the token blob resolves and
\* getValidTeslaToken branches on it.  In the Refresh branch the refresh
\* request goes out with refreshToken in its payload.
getValidTeslaToken(p) ==
    /\ Tesla
    /\ AcceptedKeys # {}
    /\ hasCredentials(env)
    /\ req[p].pc \in {"idle", "done"}
    /\ Admitted
    /\ LET tokenData == store.tesla_access_token
           d == teslaEvaluate(tokenData, now)
           r == [Invocation EXCEPT !.decision = d]
       IN  CASE d = "UseCached" ->
                  /\ req' = [req EXCEPT ![p] =
                        [r EXCEPT !.pc = "products",
                                  !.accessToken = tokenData[1].accessToken]]
                  /\ UNCHANGED nextState
            [] d = "Refresh" ->
                  /\ req' = [req EXCEPT ![p] =
                        [r EXCEPT !.pc = "refresh",
                                  !.refreshToken =
                                      refreshTokenOfRecord(tokenData)]]
                  /\ UNCHANGED nextState
            [] OTHER ->
                  /\ req' = [req EXCEPT ![p] = authorizeEntry(r)]
                  /\ nextState' = nextState + 1
    /\ UNCHANGED <<ghost, env, deployed, now, store, cb, nextTok, exchanged>>

\* refreshTeslaTokenWithBlob: the provider answers the refresh request.
refreshTeslaTokenWithBlob(p) ==
    /\ req[p].pc = "refresh"
    /\ \E data \in TokenResponses(nextTok) :
         /\ Truthy(data.access_token) => nextTok <= MaxTok
         /\ IF isSuccess(data)
            THEN /\ req' = [req EXCEPT ![p].pc = "refreshStore",
                                       ![p].data = data,
                                       ![p].expiresAt =
                                           computeExpiresAt(now, data.expires_in)]
                 /\ nextTok' = nextTok + 1
                 /\ UNCHANGED ghost
            ELSE /\ req' = [req EXCEPT ![p].pc = "clear"]
                 /\ ghost' = [ghost EXCEPT !.rejected = @ \/ data.kind # "throw"]
                 /\ UNCHANGED nextTok
    /\ UNCHANGED <<env, deployed, now, store, cb, nextState, exchanged>>

\* The setJSON of the refreshed record lands; the new token is returned.
refreshStore(p) ==
    /\ req[p].pc = "refreshStore"
    /\ store' = [store EXCEPT !.tesla_access_token =
                    <<refreshedRecord(req[p].data, req[p].refreshToken,
                                      req[p].expiresAt)>>]
    /\ req' = [req EXCEPT ![p].pc = "products",
                          ![p].accessToken = req[p].data.access_token]
    /\ UNCHANGED <<ghost, env, deployed, now, cb, nextState, nextTok, exchanged>>

\* Refresh failed: setJSON(TESLA_ACCESS_TOKEN_BLOB_KEY, null) lands and
\* authorize starts.
clearBlob(p) ==
    /\ req[p].pc = "clear"
    /\ store' = [store EXCEPT !.tesla_access_token = NoBlob]
    /\ req' = [req EXCEPT ![p] = authorizeEntry(req[p])]
    /\ nextState' = nextState + 1
    /\ UNCHANGED <<ghost, env, deployed, now, cb, nextTok, exchanged>>

\* authorize: store.set(CURRENT_STATE_BLOB_KEY, state) lands.
setState(p) ==
    /\ req[p].pc = "setState"
    /\ store' = [store EXCEPT !.tesla_current_state = req[p].state]
    /\ req' = [req EXCEPT ![p].pc = "clearCode"]
    /\ UNCHANGED <<ghost, env, deployed, now, cb, nextState, nextTok, exchanged>>

\* The clearing of the stale code sent to the key of the token record.
clearStaleCodeOnTokenKey(p) ==
    /\ req[p].pc = "clearCode"
    /\ store' = [store EXCEPT !.tesla_access_token = NoBlob]
    /\ req' = [req EXCEPT ![p].pc = "poll"]
    /\ UNCHANGED <<ghost, env, deployed, now, cb, nextState, nextTok, exchanged>>

\* authorize: store.set(CURRENT_AUTH_CODE_BLOB_KEY, null) lands.
clearStaleCode(p) ==
    /\ req[p].pc = "clearCode"
    /\ store' = [store EXCEPT !.tesla_current_auth_code = Absent]
    /\ req' = [req EXCEPT ![p].pc = "poll"]
    /\ UNCHANGED <<ghost, env, deployed, now, cb, nextState, nextTok, exchanged>>

\* The polling loop never counting an attempt.
pollUncounted(p, budget) ==
    /\ req[p].pc = "poll"
    /\ LET code == store.tesla_current_auth_code
       IN  IF Truthy(code)
           THEN req' = [req EXCEPT ![p].pc = "exchange", ![p].code = code]
           ELSE req' = [req EXCEPT ![p].pollAttempts = 1 - @]
    /\ UNCHANGED <<ghost, env, deployed, now, store, cb, nextState, nextTok, exchanged>>

\* The polling loop forgetting the session when it gives up.
pollClearingState(p, budget) ==
    /\ req[p].pc = "poll"
    /\ req[p].pollAttempts < budget
    /\ LET code == store.tesla_current_auth_code
       IN  IF Truthy(code)
           THEN /\ req' = [req EXCEPT ![p].pc = "exchange", ![p].code = code]
                /\ UNCHANGED store
           ELSE IF req[p].pollAttempts + 1 < budget
           THEN /\ req' = [req EXCEPT ![p].pollAttempts = @ + 1]
                /\ UNCHANGED store
           ELSE /\ req' = [req EXCEPT ![p] = finished(500, "timeout")]
                /\ store' = [store EXCEPT !.tesla_current_state = Absent]
    /\ UNCHANGED <<ghost, env, deployed, now, cb, nextState, nextTok, exchanged>>

\* authorize: one iteration of the polling loop.  The read of the code slot
\* resolves; on a code the loop is left and the exchange request goes out,
\* otherwise the invocation sleeps and counts the attempt, and gives up
\* (returns null, the handler answers 500) after budget attempts.  The code
\* has budget = maxPollAttempts.
poll(p, budget) ==
    /\ req[p].pc = "poll"
    /\ req[p].pollAttempts < budget
    /\ LET code == store.tesla_current_auth_code
       IN  IF Truthy(code)
           THEN req' = [req EXCEPT ![p].pc = "exchange", ![p].code = code]
           ELSE IF req[p].pollAttempts + 1 < budget
           THEN req' = [req EXCEPT ![p].pollAttempts = @ + 1]
           ELSE req' = [req EXCEPT ![p] = finished(500, "timeout")]
    /\ UNCHANGED <<ghost, env, deployed, now, store, cb, nextState, nextTok, exchanged>>

\* authorize: the provider answers the authorization_code request.
exchange(p) ==
    /\ req[p].pc = "exchange"
    /\ \E data \in TokenResponses(nextTok) :
         /\ Truthy(data.access_token) => nextTok <= MaxTok
         /\ IF isSuccess(data)
            THEN /\ req' = [req EXCEPT ![p].pc = "store",
                                       ![p].data = data,
                                       ![p].expiresAt =
                                           computeExpiresAt(now, data.expires_in)]
                 /\ nextTok' = nextTok + 1
            ELSE /\ req' = [req EXCEPT ![p] = finished(500, "exchangeFailed")]
                 /\ UNCHANGED nextTok
    /\ exchanged' = [exchanged EXCEPT ![req[p].code] = Sat(@)]
    /\ UNCHANGED <<ghost, env, deployed, now, store, cb, nextState>>

\* authorize: the setJSON of the new record lands.
storeRecord(p) ==
    /\ req[p].pc = "store"
    /\ store' = [store EXCEPT !.tesla_access_token =
                    <<exchangedRecord(req[p].data, req[p].expiresAt)>>]
    /\ req' = [req EXCEPT ![p].pc = "clearCode2"]
    /\ ghost' = [ghost EXCEPT !.rejected = FALSE]
    /\ UNCHANGED <<env, deployed, now, cb, nextState, nextTok, exchanged>>

\* authorize returning the token with the used code left in its slot.
clearUsedCodeSkipped(p) ==
    /\ req[p].pc = "clearCode2"
    /\ req' = [req EXCEPT ![p].pc = "products",
                          ![p].accessToken = req[p].data.access_token]
    /\ UNCHANGED <<ghost, env, deployed, now, store, cb, nextState, nextTok, exchanged>>

\* authorize: the code slot is cleared and the access token returned.
clearUsedCode(p) ==
    /\ req[p].pc = "clearCode2"
    /\ store' = [store EXCEPT !.tesla_current_auth_code = Absent]
    /\ req' = [req EXCEPT ![p].pc = "products",
                          ![p].accessToken = req[p].data.access_token]
    /\ UNCHANGED <<ghost, env, deployed, now, cb, nextState, nextTok, exchanged>>

\* The read of the token blob rejects: the catch block of getValidTeslaToken
\* calls authorize.
getValidTeslaTokenFault(p) ==
    /\ Tesla
    /\ AcceptedKeys # {}
    /\ hasCredentials(env)
    /\ req[p].pc \in {"idle", "done"}
    /\ Admitted
    /\ req' = [req EXCEPT ![p] =
                  authorizeEntry([Invocation EXCEPT !.decision = "StoreError",
                                                 !.caught = TRUE])]
    /\ nextState' = nextState + 1
    /\ UNCHANGED <<ghost, env, deployed, now, store, cb, nextTok, exchanged>>

\* The store operation a Tesla data request awaits rejects.  Inside the try of
\* refreshTeslaTokenWithBlob or of authorize the function returns null; the
\* operations of authorize before its try (state, stale code, poll) and the
\* clearing of the blob throw into the catch block of getValidTeslaToken, which
\* calls authorize, and throw out of the handler once that block is running.
teslaStoreFault(p) ==
    /\ Tesla
    /\ req[p].pc \in {"refreshStore", "clear", "setState", "clearCode", "poll",
                       "store", "clearCode2"}
    /\ CASE req[p].pc = "refreshStore" ->
              /\ req' = [req EXCEPT ![p].pc = "clear"]
              /\ UNCHANGED nextState
         [] req[p].pc \in {"store", "clearCode2"} ->
              /\ req' = [req EXCEPT ![p] = finished(500, "storeFailed")]
              /\ UNCHANGED nextState
         [] OTHER ->
              IF req[p].caught
              THEN /\ req' = [req EXCEPT ![p] = finished(0, "storeThrew")]
                   /\ UNCHANGED nextState
              ELSE /\ nextState <= MaxStates
                   /\ req' = [req EXCEPT ![p] =
                                 authorizeEntry([req[p] EXCEPT !.caught = TRUE])]
                   /\ nextState' = nextState + 1
    /\ UNCHANGED <<ghost, env, deployed, now, store, cb, nextTok, exchanged>>

\* The answers of a provider's data endpoint to a request that carries the
\* access token: the data, a 401 for the token, or any other failure.
DataAnswers == {"ok", "unauthorized", "error"}

\* The handler calls the Tesla data endpoints with the token and answers: a
\* response that is not ok, the 401 included, gives 500 and nothing else.
teslaData(p) ==
    /\ Tesla
    /\ req[p].pc = "products"
    /\ \E answer \in DataAnswers :
         req' = [req EXCEPT ![p] =
                    CASE answer = "ok" -> finished(200, "data")
                      [] answer = "unauthorized" -> finished(500, "unauthorized")
                      [] OTHER -> finished(500, "data")]
    /\ UNCHANGED <<ghost, env, deployed, now, store, cb, nextState, nextTok, exchanged>>

(***************************************************************************)
(* The Tesla callback handlers: the variant that stores the code for the   *)
(* polling authorize, and tesla-callback.js, which exchanges it itself.    *)
(***************************************************************************)

\* States and codes a callback request may carry: none, any state whose
\* authorization URL has been logged, or a made-up one.
CallbackStates == {Absent, Forged} \cup (1 .. (nextState - 1))
CallbackCodes == {Absent} \cup Codes

\* The state check without its !state half.
stateRejectedOnMismatchOnly(state, expectedState) == state # expectedState

\* !state || state !== expectedState
stateRejected(state, expectedState) == ~Truthy(state) \/ state # expectedState

\* Store-the-code variant: the read of the expected state resolves.
storeCodeCallback(state, code) ==
    /\ deployed = "tesla_store_code"
    /\ cb.pc \in {"idle", "done"}
    /\ LET expectedState == store.tesla_current_state
           c == [IdleCb EXCEPT !.state = state, !.code = code]
       IN  IF stateRejected(state, expectedState)
           THEN cb' = [c EXCEPT !.pc = "done", !.statusCode = 400]
           ELSE IF Truthy(code)
           THEN cb' = [c EXCEPT !.pc = "setCode"]
           ELSE cb' = [c EXCEPT !.pc = "done", !.statusCode = 400]
    /\ UNCHANGED <<ghost, env, deployed, now, store, req, nextState, nextTok, exchanged>>

\* The storing of the code also consuming the expected state.
storeCodeClearingState ==
    /\ cb.pc = "setCode"
    /\ store' = [store EXCEPT !.tesla_current_auth_code = cb.code,
                              !.tesla_current_state = Absent]
    /\ cb' = [cb EXCEPT !.pc = "done", !.statusCode = 200]
    /\ UNCHANGED <<ghost, env, deployed, now, req, nextState, nextTok, exchanged>>

\* Store-the-code variant: store.set(CURRENT_AUTH_CODE_BLOB_KEY, code) lands.
storeCode ==
    /\ cb.pc = "setCode"
    /\ store' = [store EXCEPT !.tesla_current_auth_code = cb.code]
    /\ cb' = [cb EXCEPT !.pc = "done", !.statusCode = 200]
    /\ UNCHANGED <<ghost, env, deployed, now, req, nextState, nextTok, exchanged>>

\* Direct-exchange variant: the read of the expected state resolves.  With a
\* matching state and no code the handler runs off its end (no response).
directCallback(state, code) ==
    /\ deployed = "tesla_direct"
    /\ cb.pc \in {"idle", "done"}
    /\ LET expectedState == store.tesla_current_state
           c == [IdleCb EXCEPT !.state = state, !.code = code]
       IN  IF stateRejected(state, expectedState)
           THEN cb' = [c EXCEPT !.pc = "done", !.statusCode = 400]
           ELSE IF Truthy(code)
           THEN cb' = [c EXCEPT !.pc = "exchange"]
           ELSE cb' = [c EXCEPT !.pc = "done", !.statusCode = 0]
    /\ UNCHANGED <<ghost, env, deployed, now, store, req, nextState, nextTok, exchanged>>

\* Direct-exchange variant: the provider answers the authorization_code
\* request.  A non-ok response makes the handler return null.
directExchange ==
    /\ deployed = "tesla_direct"
    /\ cb.pc = "exchange"
    /\ \E data \in TokenResponses(nextTok) :
         /\ Truthy(data.access_token) => nextTok <= MaxTok
         /\ IF isSuccess(data)
            THEN /\ cb' = [cb EXCEPT !.pc = "store", !.data = data,
                                     !.expiresAt =
                                         computeExpiresAt(now, data.expires_in)]
                 /\ nextTok' = nextTok + 1
                 /\ ghost' = [ghost EXCEPT !.redeemed = @ \cup {<<cb.state, cb.code>>}]
            ELSE /\ cb' = [cb EXCEPT !.pc = "done",
                                     !.statusCode =
                                         IF data.kind = "notok" THEN 0 ELSE 400]
                 /\ UNCHANGED <<nextTok, ghost>>
    /\ exchanged' = [exchanged EXCEPT ![cb.code] = Sat(@)]
    /\ UNCHANGED <<env, deployed, now, store, req, nextState>>

\* Direct-exchange variant: the setJSON of the new record lands.
directStore ==
    /\ deployed = "tesla_direct"
    /\ cb.pc = "store"
    /\ store' = [store EXCEPT !.tesla_access_token =
                    <<exchangedRecord(cb.data, cb.expiresAt)>>]
    /\ cb' = [cb EXCEPT !.pc = "done", !.statusCode = 200,
                        !.data = NoData, !.expiresAt = NaN]
    /\ ghost' = [ghost EXCEPT !.rejected = FALSE]
    /\ UNCHANGED <<env, deployed, now, req, nextState, nextTok, exchanged>>

(***************************************************************************)
(* spotify-callback.js (the Spotify data handler): getValidSpotifyToken,   *)
(* authorizeSpotify and the handler.                                       *)
(***************************************************************************)
Digits == <<"0", "1", "2", "3", "4", "5", "6", "7", "8", "9">>
IsDigit(c) == \E d \in 1 .. 10 : Digits[d] = c
DigitValue(c) == (CHOOSE d \in 1 .. 10 : Digits[d] = c) - 1

\* String(n)
RECURSIVE numberToString(_)
numberToString(n) ==
    IF n = NaN THEN <<"N", "a", "N">>
    ELSE IF n < 10 THEN <<Digits[n + 1]>>
    ELSE Append(numberToString(n \div 10), Digits[(n % 10) + 1])

\* parseInt(s, 10): the number its leading digits spell, NaN without any
RECURSIVE parseDigits(_, _, _)
parseDigits(s, i, acc) ==
    IF i > Len(s) \/ ~IsDigit(s[i]) THEN acc
    ELSE parseDigits(s, i + 1, acc * 10 + DigitValue(s[i]))

parseInt(s) ==
    IF Len(s) = 0 \/ ~IsDigit(s[1]) THEN NaN ELSE parseDigits(s, 1, 0)

\* The stored expiry read as a number of seconds.
readExpiresAtAsSeconds(blob) ==
    parseInt(IF Len(blob) = 0 THEN <<"0">> ELSE blob) \div MsPerSecond

\* parseInt(await store.get(SPOTIFY_EXPIRES_BLOB_KEY) || '0', 10)
readExpiresAt(blob) == parseInt(IF Len(blob) = 0 THEN <<"0">> ELSE blob)

\* The body of a token response, as setJSON stores it.
body(data) ==
    [access_token |-> data.access_token, refresh_token |-> data.refresh_token,
     expires_in |-> data.expires_in]

\* getValidSpotifyToken refreshing whenever a token blob exists.
spotifyEvaluateOnBlob(tokenData, refreshToken, expiresAt, n) ==
    IF tokenData # NoBlob /\ Truthy(tokenData[1].access_token) /\ Gt(expiresAt, n)
    THEN "UseCached"
    ELSE IF tokenData # NoBlob THEN "Refresh"
    ELSE "Reauthorize"

\* The branch getValidSpotifyToken takes on the three values it read.
spotifyEvaluate(tokenData, refreshToken, expiresAt, n) ==
    IF tokenData # NoBlob /\ Truthy(tokenData[1].access_token) /\ Gt(expiresAt, n)
    THEN "UseCached"
    ELSE IF Truthy(refreshToken) THEN "Refresh"
    ELSE "Reauthorize"

\* What authorizeSpotify returns: an object, not a token, and truthy.
PendingObject == 0 - 2

\* The handler with what getValidSpotifyToken returned: 418 on a falsy
\* value, otherwise the request to the currently-playing endpoint goes out.
withSpotifyToken(r, accessToken) ==
    IF ~Truthy(accessToken)
    THEN finished(418, "authorizationNeeded")
    ELSE [r EXCEPT !.pc = "playing", !.accessToken = accessToken]

\* The handler is invoked; the read of the access-token blob resolves.
getValidSpotifyToken(p) ==
    /\ deployed = "spotify"
    /\ AcceptedKeys # {}
    /\ hasCredentials(env)
    /\ req[p].pc \in {"idle", "done"}
    /\ Admitted
    /\ req' = [req EXCEPT ![p] =
                  [Invocation EXCEPT !.pc = "readRefresh",
                                  !.tokenData = store.spotify_access_token]]
    /\ UNCHANGED <<ghost, env, deployed, now, store, cb, nextState, nextTok, exchanged>>

\* The read of the refresh-token key resolves.
readRefresh(p) ==
    /\ req[p].pc = "readRefresh"
    /\ req' = [req EXCEPT ![p].pc = "readExpires",
                          ![p].refreshToken = store.spotify_refresh_token]
    /\ UNCHANGED <<ghost, env, deployed, now, store, cb, nextState, nextTok, exchanged>>

\* The read of the expiry key resolves and getValidSpotifyToken branches.
\* authorizeSpotify generates its state before its first await.
readExpires(p) ==
    /\ req[p].pc = "readExpires"
    /\ LET expiresAt == readExpiresAt(store.spotify_expires_at)
           d == spotifyEvaluate(req[p].tokenData, req[p].refreshToken,
                                expiresAt, now)
           r == [req[p] EXCEPT !.decision = d, !.tokenData = NoBlob]
       IN  CASE d = "UseCached" ->
                  /\ req' = [req EXCEPT ![p] =
                        withSpotifyToken([r EXCEPT !.refreshToken = Absent],
                                         req[p].tokenData[1].access_token)]
                  /\ UNCHANGED nextState
            [] d = "Refresh" ->
                  /\ req' = [req EXCEPT ![p] = [r EXCEPT !.pc = "spotifyRefresh"]]
                  /\ UNCHANGED nextState
            [] OTHER ->
                  /\ req' = [req EXCEPT ![p] =
                        [r EXCEPT !.pc = "spotifySetState", !.state = nextState,
                                  !.refreshToken = Absent]]
                  /\ nextState' = nextState + 1
    /\ UNCHANGED <<ghost, env, deployed, now, store, cb, nextTok, exchanged>>

\* The provider answers the refresh request.  Nothing catches a failing
\* fetch or resp.json(): the exception leaves the handler.
spotifyRefresh(p) ==
    /\ req[p].pc = "spotifyRefresh"
    /\ \E data \in TokenResponses(nextTok) :
         /\ Truthy(data.access_token) => nextTok <= MaxTok
         /\ IF data.kind = "throw"
            THEN /\ req' = [req EXCEPT ![p] = finished(0, "threw")]
                 /\ UNCHANGED <<nextTok, ghost>>
            ELSE IF isSuccess(data)
            THEN /\ req' = [req EXCEPT ![p].pc = "writeToken",
                                       ![p].data = data,
                                       ![p].expiresAt =
                                           computeExpiresAt(now, data.expires_in)]
                 /\ nextTok' = nextTok + 1
                 /\ ghost' = announce(data)
            ELSE /\ req' = [req EXCEPT ![p].pc = "clearToken"]
                 /\ ghost' = [ghost EXCEPT !.rejected = TRUE]
                 /\ UNCHANGED nextTok
    /\ UNCHANGED <<env, deployed, now, store, cb, nextState, exchanged>>

\* Successful refresh: setJSON(SPOTIFY_TOKEN_BLOB_KEY, data) lands.
writeToken(p) ==
    /\ req[p].pc = "writeToken"
    /\ store' = [store EXCEPT !.spotify_access_token = <<body(req[p].data)>>]
    /\ req' = [req EXCEPT ![p].pc = "writeExpires"]
    /\ UNCHANGED <<ghost, env, deployed, now, cb, nextState, nextTok, exchanged>>

\* Successful refresh: set(SPOTIFY_EXPIRES_BLOB_KEY, String(newExpiresAt))
\* lands; without a refresh_token in the response the token is returned.
writeExpires(p) ==
    /\ req[p].pc = "writeExpires"
    /\ store' = [store EXCEPT !.spotify_expires_at =
                    numberToString(req[p].expiresAt)]
    /\ IF Truthy(req[p].data.refresh_token)
       THEN req' = [req EXCEPT ![p].pc = "writeRefresh"]
       ELSE req' = [req EXCEPT ![p] =
                       withSpotifyToken(req[p], req[p].data.access_token)]
    /\ ghost' = [ghost EXCEPT !.expiresNumber = req[p].expiresAt]
    /\ UNCHANGED <<env, deployed, now, cb, nextState, nextTok, exchanged>>

\* Successful refresh: set(SPOTIFY_REFRESH_BLOB_KEY, data.refresh_token) lands.
writeRefresh(p) ==
    /\ req[p].pc = "writeRefresh"
    /\ store' = [store EXCEPT !.spotify_refresh_token = req[p].data.refresh_token]
    /\ req' = [req EXCEPT ![p] =
                  withSpotifyToken(req[p], req[p].data.access_token)]
    /\ UNCHANGED <<ghost, env, deployed, now, cb, nextState, nextTok, exchanged>>

\* Failed refresh: setJSON(SPOTIFY_TOKEN_BLOB_KEY, null) lands.
clearToken(p) ==
    /\ req[p].pc = "clearToken"
    /\ store' = [store EXCEPT !.spotify_access_token = NoBlob]
    /\ req' = [req EXCEPT ![p].pc = "clearRefresh"]
    /\ UNCHANGED <<ghost, env, deployed, now, cb, nextState, nextTok, exchanged>>

\* The failed-refresh path leaving the refresh-token key as it is.
clearRefreshSkipped(p) ==
    /\ req[p].pc = "clearRefresh"
    /\ req' = [req EXCEPT ![p].pc = "clearExpires"]
    /\ UNCHANGED <<ghost, env, deployed, now, store, cb, nextState, nextTok, exchanged>>

\* Failed refresh: set(SPOTIFY_REFRESH_BLOB_KEY, null) lands.
clearRefresh(p) ==
    /\ req[p].pc = "clearRefresh"
    /\ store' = [store EXCEPT !.spotify_refresh_token = Absent]
    /\ req' = [req EXCEPT ![p].pc = "clearExpires"]
    /\ UNCHANGED <<ghost, env, deployed, now, cb, nextState, nextTok, exchanged>>

\* Failed refresh: set(SPOTIFY_EXPIRES_BLOB_KEY, null) lands and
\* authorizeSpotify starts.
clearExpires(p) ==
    /\ req[p].pc = "clearExpires"
    /\ store' = [store EXCEPT !.spotify_expires_at = <<>>]
    /\ req' = [req EXCEPT ![p].pc = "spotifySetState", ![p].state = nextState,
                          ![p].refreshToken = Absent]
    /\ nextState' = nextState + 1
    /\ ghost' = [ghost EXCEPT !.expiresNumber = Absent]
    /\ UNCHANGED <<env, deployed, now, cb, nextTok, exchanged>>

\* authorizeSpotify: store.set(SPOTIFY_AUTH_STATE_KEY, state) lands; the URL
\* is logged and pushed.
spotifySetState(p) ==
    /\ req[p].pc = "spotifySetState"
    /\ store' = [store EXCEPT !.spotify_auth_state = req[p].state]
    /\ req' = [req EXCEPT ![p].pc = "notify"]
    /\ UNCHANGED <<ghost, env, deployed, now, cb, nextState, nextTok, exchanged>>

\* authorizeSpotify: the notification is done; the 418 object is returned to
\* the handler as if it were the access token.
notify(p) ==
    /\ req[p].pc = "notify"
    /\ req' = [req EXCEPT ![p] = withSpotifyToken(req[p], PendingObject)]
    /\ UNCHANGED <<ghost, env, deployed, now, store, cb, nextState, nextTok, exchanged>>

\* The first store read of getValidSpotifyToken rejects: nothing catches it.
getValidSpotifyTokenFault(p) ==
    /\ deployed = "spotify"
    /\ AcceptedKeys # {}
    /\ hasCredentials(env)
    /\ req[p].pc \in {"idle", "done"}
    /\ req' = [req EXCEPT ![p] = finished(0, "storeThrew")]
    /\ UNCHANGED <<ghost, env, deployed, now, store, cb, nextState, nextTok, exchanged>>

\* The store operation a Spotify data request awaits rejects: neither
\* getValidSpotifyToken, authorizeSpotify nor the handler catches it.
spotifyStoreFault(p) ==
    /\ req[p].pc \in {"readRefresh", "readExpires", "writeToken", "writeExpires",
                       "writeRefresh", "clearToken", "clearRefresh",
                       "clearExpires", "spotifySetState"}
    /\ req' = [req EXCEPT ![p] = finished(0, "storeThrew")]
    /\ UNCHANGED <<ghost, env, deployed, now, store, cb, nextState, nextTok, exchanged>>

\* The handler calls the currently-playing endpoint and answers: a response
\* that is not ok, the 401 included, gives 200 with nothing playing; only an
\* exception gives 500.
spotifyData(p) ==
    /\ deployed = "spotify"
    /\ req[p].pc = "playing"
    /\ \E answer \in DataAnswers :
         req' = [req EXCEPT ![p] =
                    CASE answer = "ok" -> finished(200, "data")
                      [] answer = "unauthorized" -> finished(200, "unauthorized")
                      [] OTHER -> finished(500, "data")]
    /\ UNCHANGED <<ghost, env, deployed, now, store, cb, nextState, nextTok, exchanged>>

(***************************************************************************)
(* The Spotify callback handler.                                           *)
(***************************************************************************)

\* The callback is invoked.  Only the code parameter is looked at.
spotifyCallback(state, code) ==
    /\ deployed = "spotify"
    /\ cb.pc \in {"idle", "done"}
    /\ LET c == [IdleCb EXCEPT !.state = state, !.code = code]
       IN  IF ~Truthy(code)
           THEN cb' = [c EXCEPT !.pc = "done", !.statusCode = 400]
           ELSE cb' = [c EXCEPT !.pc = "exchange"]
    /\ UNCHANGED <<ghost, env, deployed, now, store, req, nextState, nextTok, exchanged>>

\* The provider answers the authorization_code request.
spotifyExchange ==
    /\ deployed = "spotify"
    /\ cb.pc = "exchange"
    /\ \E data \in TokenResponses(nextTok) :
         /\ Truthy(data.access_token) => nextTok <= MaxTok
         /\ IF data.kind = "throw"
            THEN /\ cb' = [cb EXCEPT !.pc = "done", !.statusCode = 0]
                 /\ UNCHANGED <<nextTok, ghost>>
            ELSE IF isSuccess(data)
            THEN /\ cb' = [cb EXCEPT !.pc = "writeToken", !.data = data,
                                     !.expiresAt =
                                         computeExpiresAt(now, data.expires_in)]
                 /\ nextTok' = nextTok + 1
                 /\ ghost' = announce(data)
            ELSE /\ cb' = [cb EXCEPT !.pc = "done", !.statusCode = 500]
                 /\ UNCHANGED <<nextTok, ghost>>
    /\ exchanged' = [exchanged EXCEPT ![cb.code] = Sat(@)]
    /\ UNCHANGED <<env, deployed, now, store, req, nextState>>

\* setJSON(SPOTIFY_TOKEN_BLOB_KEY, data) lands.
callbackWriteToken ==
    /\ deployed = "spotify"
    /\ cb.pc = "writeToken"
    /\ store' = [store EXCEPT !.spotify_access_token = <<body(cb.data)>>]
    /\ cb' = [cb EXCEPT !.pc = "writeExpires"]
    /\ ghost' = [ghost EXCEPT !.rejected = FALSE]
    /\ UNCHANGED <<env, deployed, now, req, nextState, nextTok, exchanged>>

\* set(SPOTIFY_EXPIRES_BLOB_KEY, String(newExpiresAt)) lands.
callbackWriteExpires ==
    /\ deployed = "spotify"
    /\ cb.pc = "writeExpires"
    /\ store' = [store EXCEPT !.spotify_expires_at = numberToString(cb.expiresAt)]
    /\ IF Truthy(cb.data.refresh_token)
       THEN cb' = [cb EXCEPT !.pc = "writeRefresh"]
       ELSE cb' = [cb EXCEPT !.pc = "done", !.statusCode = 200,
                             !.data = NoData, !.expiresAt = NaN]
    /\ ghost' = [ghost EXCEPT !.expiresNumber = cb.expiresAt, !.rejected = FALSE]
    /\ UNCHANGED <<env, deployed, now, req, nextState, nextTok, exchanged>>

\* set(SPOTIFY_REFRESH_BLOB_KEY, data.refresh_token) lands.
callbackWriteRefresh ==
    /\ deployed = "spotify"
    /\ cb.pc = "writeRefresh"
    /\ store' = [store EXCEPT !.spotify_refresh_token = cb.data.refresh_token]
    /\ cb' = [cb EXCEPT !.pc = "done", !.statusCode = 200,
                        !.data = NoData, !.expiresAt = NaN]
    /\ ghost' = [ghost EXCEPT !.rejected = FALSE]
    /\ UNCHANGED <<env, deployed, now, req, nextState, nextTok, exchanged>>

\* Time passes.
Tick ==
    /\ now < StartTime + MaxTicks * TickMs
    /\ now' = now + TickMs
    /\ UNCHANGED <<ghost, env, deployed, store, req, cb, nextState, nextTok, exchanged>>

(***************************************************************************)
(* Specifications.  Spec runs one data request at a time, concurrently     *)
(* with the callback, for each deployment.  TeslaConcSpec runs NumReq      *)
(* Tesla data requests, one invocation each, concurrently with the         *)
(* store-the-code callback.                                                *)
(* PollSpec runs that deployment with the polling budget of the code.      *)
(***************************************************************************)
TeslaDataStep(p, budget) ==
    \/ getValidTeslaToken(p)
    \/ refreshTeslaTokenWithBlob(p)
    \/ refreshStore(p)
    \/ clearBlob(p)
    \/ setState(p)
    \/ clearStaleCode(p)
    \/ poll(p, budget)
    \/ exchange(p)
    \/ storeRecord(p)
    \/ clearUsedCode(p)
    \/ teslaData(p)

SpotifyDataStep(p) ==
    \/ getValidSpotifyToken(p)
    \/ readRefresh(p)
    \/ readExpires(p)
    \/ spotifyRefresh(p)
    \/ writeToken(p)
    \/ writeExpires(p)
    \/ writeRefresh(p)
    \/ clearToken(p)
    \/ clearRefresh(p)
    \/ clearExpires(p)
    \/ spotifySetState(p)
    \/ notify(p)
    \/ spotifyData(p)

StoreCodeCallbackStep ==
    \/ \E state \in CallbackStates, code \in CallbackCodes :
          storeCodeCallback(state, code)
    \/ storeCode

DirectCallbackStep ==
    \/ \E state \in CallbackStates, code \in CallbackCodes :
          directCallback(state, code)
    \/ directExchange
    \/ directStore

SpotifyCallbackStep ==
    \/ \E state \in CallbackStates, code \in CallbackCodes :
          spotifyCallback(state, code)
    \/ spotifyExchange
    \/ callbackWriteToken
    \/ callbackWriteExpires
    \/ callbackWriteRefresh

Next ==
    \/ unauthorized(1)
    \/ notConfigured(1)
    \/ TeslaDataStep(1, PollBudget)
    \/ SpotifyDataStep(1)
    \/ StoreCodeCallbackStep
    \/ DirectCallbackStep
    \/ SpotifyCallbackStep
    \/ Tick

Spec == Init /\ [][Next]_vars

StoreCodeInit ==
    /\ Init
    /\ deployed = "tesla_store_code"
    /\ hasCredentials(env)
    /\ Truthy(env.API_KEY)

TeslaConcNext ==
    \/ \E p \in Requests : req[p].pc # "done" /\ TeslaDataStep(p, PollBudget)
    \/ StoreCodeCallbackStep

TeslaConcSpec == StoreCodeInit /\ [][TeslaConcNext]_vars

\* RefreshConcSpec runs the same requests from a store that holds a token
\* record written by an earlier exchange whose expiry has been reached.
OldTok == MaxTok + 1

ExpiredRecord ==
    [accessToken |-> OldTok, refreshToken |-> OldTok, expiresAt |-> StartTime]

RefreshConcInit ==
    /\ env \in Envs
    /\ hasCredentials(env)
    /\ Truthy(env.API_KEY)
    /\ deployed = "tesla_store_code"
    /\ now = StartTime
    /\ store = [EmptyStore EXCEPT !.tesla_access_token = <<ExpiredRecord>>]
    /\ req = [p \in Requests |-> IdleReq]
    /\ cb = IdleCb
    /\ nextState = 1
    /\ nextTok = 1
    /\ exchanged = [c \in Codes |-> 0]
    /\ ghost = NoHistory

RefreshConcSpec == RefreshConcInit /\ [][TeslaConcNext]_vars

PollNext == TeslaDataStep(1, maxPollAttempts) \/ StoreCodeCallbackStep

PollSpec == StoreCodeInit /\ [][PollNext]_vars

\* FaultSpec runs one data request at a time and the callback, at one
\* instant, with a store whose operations may reject.
StoreFaultStep(p) ==
    \/ getValidTeslaTokenFault(p)
    \/ teslaStoreFault(p)
    \/ getValidSpotifyTokenFault(p)
    \/ spotifyStoreFault(p)

FaultNext ==
    \/ unauthorized(1)
    \/ notConfigured(1)
    \/ TeslaDataStep(1, PollBudget)
    \/ SpotifyDataStep(1)
    \/ StoreCodeCallbackStep
    \/ DirectCallbackStep
    \/ SpotifyCallbackStep
    \/ StoreFaultStep(1)

FaultSpec == Init /\ [][FaultNext]_vars

\* Every awaited operation of a data request completes: the store answers, the
\* sleep of the polling loop ends, the provider answers or the fetch fails.
PollLiveSpec == PollSpec /\ WF_vars(TeslaDataStep(1, maxPollAttempts))

(***************************************************************************)
(* Properties.  The sequential contracts are stated on the steps of the    *)
(* data request of Spec (request 1) and of the callback.                   *)
(***************************************************************************)

\* The stored Tesla record is usable at the current time.
TeslaUsable ==
    /\ store.tesla_access_token # NoBlob
    /\ Truthy(store.tesla_access_token[1].accessToken)
    /\ store.tesla_access_token[1].expiresAt > now

\* The Spotify token blob the request read has an access token and the
\* number last written to the expiry key is later than the current time.
SpotifyUsable ==
    /\ req[1].tokenData # NoBlob
    /\ Truthy(req[1].tokenData[1].access_token)
    /\ ghost.expiresNumber # NaN
    /\ ghost.expiresNumber > now

\* No store write and no request to the provider's token endpoint.
NoWriteNoTokenRequest == UNCHANGED <<store, nextTok, exchanged>>

\* C1: the evaluators return the cached access token, with no token request
\* and no store write, exactly when a stored record with an access token
\* exists and its stored expiry is strictly later than now.
C1_CachedIffUnexpired ==
    [][/\ getValidTeslaToken(1) =>
            /\ (req'[1].decision = "UseCached") <=> TeslaUsable
            /\ TeslaUsable =>
                 /\ req'[1].pc = "products"
                 /\ req'[1].accessToken = store.tesla_access_token[1].accessToken
                 /\ NoWriteNoTokenRequest
       /\ readExpires(1) =>
            /\ (req'[1].decision = "UseCached") <=> SpotifyUsable
            /\ SpotifyUsable =>
                 /\ req'[1].pc = "playing"
                 /\ req'[1].accessToken = req[1].tokenData[1].access_token
                 /\ NoWriteNoTokenRequest]_vars

C1_Witness ==
    /\ Tesla
    /\ req[1].pc = "products"
    /\ req[1].decision = "UseCached"
    /\ TeslaUsable
    /\ req[1].accessToken = store.tesla_access_token[1].accessToken

\* C2: with no usable cached token, the evaluators go to the refresh exactly
\* when a refresh token is stored, and otherwise to the authorization flow;
\* a refresh request is sent only by an invocation that decided to refresh.
C2_RefreshIffRefreshToken ==
    [][/\ (getValidTeslaToken(1) /\ ~TeslaUsable) =>
            IF /\ store.tesla_access_token # NoBlob
               /\ Truthy(store.tesla_access_token[1].refreshToken)
            THEN /\ req'[1].pc = "refresh"
                 /\ req'[1].refreshToken = store.tesla_access_token[1].refreshToken
            ELSE /\ req'[1].pc = "setState"
                 /\ nextTok' = nextTok
       /\ readRefresh(1) => req'[1].refreshToken = store.spotify_refresh_token
       /\ (readExpires(1) /\ ~SpotifyUsable) =>
            IF Truthy(req[1].refreshToken)
            THEN req'[1].pc = "spotifyRefresh"
            ELSE /\ req'[1].pc = "spotifySetState"
                 /\ nextTok' = nextTok
       /\ (refreshTeslaTokenWithBlob(1) \/ spotifyRefresh(1)) =>
            /\ req[1].decision = "Refresh"
            /\ Truthy(req[1].refreshToken)]_vars

C2_Witness ==
    /\ Tesla
    /\ store.tesla_access_token # NoBlob
    /\ ~Truthy(store.tesla_access_token[1].refreshToken)
    /\ req[1].decision = "Reauthorize"
    /\ req[1].pc = "setState"

\* C3: a successful refresh whose response has no refresh_token leaves the
\* refresh token that was stored when the refresh began (the one the
\* invocation read) in the store; a refresh_token in the response replaces it.
C3_RefreshTokenPreserved ==
    [][/\ refreshStore(1) =>
            store'.tesla_access_token[1].refreshToken =
                IF Truthy(req[1].data.refresh_token)
                THEN req[1].data.refresh_token
                ELSE req[1].refreshToken
       /\ (writeToken(1) \/ writeExpires(1)) =>
            store'.spotify_refresh_token = store.spotify_refresh_token
       /\ (writeExpires(1) /\ ~Truthy(req[1].data.refresh_token)) =>
            req'[1].pc = "playing"
       /\ (writeExpires(1) /\ Truthy(req[1].data.refresh_token)) =>
            req'[1].pc = "writeRefresh"
       /\ writeRefresh(1) =>
            store'.spotify_refresh_token = req[1].data.refresh_token]_vars

C3_Witness ==
    /\ Tesla
    /\ req[1].decision = "Refresh"
    /\ req[1].pc = "products"
    /\ store.tesla_access_token # NoBlob
    /\ store.tesla_access_token[1].accessToken = req[1].accessToken
    /\ Truthy(store.tesla_access_token[1].refreshToken)
    /\ store.tesla_access_token[1].refreshToken # req[1].accessToken

\* C4: a refresh the provider answers with a non-success response is followed
\* by the clearing of the provider's token record, and the next evaluation,
\* unless a code exchange has written token data in between, goes to the
\* authorization flow.
C4_RejectedRefreshClears ==
    [][/\ (refreshTeslaTokenWithBlob(1) /\ req'[1].pc # "refreshStore") =>
            req'[1].pc = "clear"
       /\ (req[1].pc = "clear" /\ req'[1] # req[1]) =>
            store'.tesla_access_token = NoBlob
       /\ (spotifyRefresh(1) /\ ghost'.rejected /\ req'[1].pc # "writeToken") =>
            req'[1].pc = "clearToken"
       /\ (req[1].pc = "clearToken" /\ req'[1] # req[1]) =>
            /\ store'.spotify_access_token = NoBlob
            /\ req'[1].pc = "clearRefresh"
       /\ (req[1].pc = "clearRefresh" /\ req'[1] # req[1]) =>
            /\ store'.spotify_refresh_token = Absent
            /\ req'[1].pc = "clearExpires"
       /\ (req[1].pc = "clearExpires" /\ req'[1] # req[1]) =>
            store'.spotify_expires_at = <<>>
       /\ ((getValidTeslaToken(1) \/ readExpires(1)) /\ ghost.rejected) =>
            req'[1].decision = "Reauthorize"]_vars

C4_Witness ==
    /\ deployed = "spotify"
    /\ ghost.rejected
    /\ req[1].decision = "Reauthorize"
    /\ req[1].pc = "spotifySetState"

\* C5: a Tesla callback whose state is missing, or differs from the stored
\* expected state, or arrives when no expected state is stored, is answered
\* 400 and makes no token request and no store write, in both variants.
C5_BadStateRejected ==
    [][(/\ Tesla
        /\ cb.pc \in {"idle", "done"}
        /\ cb' # cb
        /\ \/ ~Truthy(cb'.state)
           \/ cb'.state # store.tesla_current_state
           \/ ~Truthy(store.tesla_current_state)) =>
            /\ cb'.pc = "done"
            /\ cb'.statusCode = 400
            /\ NoWriteNoTokenRequest]_vars

C5_Witness ==
    /\ Tesla
    /\ cb.pc = "done"
    /\ cb.statusCode = 400
    /\ Truthy(cb.state)
    /\ Truthy(cb.code)
    /\ Truthy(store.tesla_current_state)
    /\ cb.state # store.tesla_current_state

\* C6: the Spotify callback sends an exchange request and writes token keys
\* only for a callback whose state parameter is the state stored under
\* spotify_auth_state.
C6_SpotifyStateChecked ==
    [][(\/ spotifyExchange
        \/ callbackWriteToken
        \/ callbackWriteExpires
        \/ callbackWriteRefresh) =>
            /\ Truthy(cb.state)
            /\ cb.state = store.spotify_auth_state]_vars

\* C7: once a callback's code has been exchanged for a token, a callback with
\* the same state and the same code sends no exchange request.
C7_ReplayNotExchanged ==
    [][directExchange => <<cb.state, cb.code>> \notin ghost.redeemed]_vars

\* C8: however data requests and callbacks interleave, the token endpoint
\* receives at most one authorization_code request per code.
C8_ExchangedAtMostOnce == \A c \in Codes : exchanged[c] <= 1

\* A step of data request 1 away from position pc.
Leaves(pc) == req[1].pc = pc /\ req'[1] # req[1]

\* C9: with the store-the-code callback and no token record, a data request
\* generates and persists a fresh state; a callback with that state and a
\* code puts the code in the pending-code slot; the polling request reads it,
\* sends it in an exchange request, persists the access token, refresh token
\* and expiry of the answer, clears the slot and returns the access token.
C9_HappyPath ==
    [][deployed = "tesla_store_code" =>
        /\ (getValidTeslaToken(1) /\ store.tesla_access_token = NoBlob) =>
             /\ req'[1].pc = "setState"
             /\ req'[1].state = nextState
             /\ nextState' = nextState + 1
        /\ Leaves("setState") =>
             /\ store'.tesla_current_state = req[1].state
             /\ req'[1].pc = "clearCode"
        /\ Leaves("clearCode") =>
             /\ store'.tesla_current_auth_code = Absent
             /\ req'[1].pc = "poll"
        /\ (/\ cb.pc \in {"idle", "done"}
            /\ cb' # cb
            /\ Truthy(cb'.state)
            /\ cb'.state = store.tesla_current_state
            /\ Truthy(cb'.code)) =>
             cb'.pc = "setCode"
        /\ (cb.pc = "setCode" /\ cb' # cb) =>
             /\ store'.tesla_current_auth_code = cb.code
             /\ cb'.statusCode = 200
        /\ (Leaves("poll") /\ Truthy(store.tesla_current_auth_code)) =>
             /\ req'[1].pc = "exchange"
             /\ req'[1].code = store.tesla_current_auth_code
        /\ Leaves("exchange") =>
             /\ exchanged'[req[1].code] = Sat(exchanged[req[1].code])
             /\ req'[1].pc = "store" =>
                  /\ Truthy(req'[1].data.access_token)
                  /\ req'[1].data.expires_in # NaN =>
                       req'[1].expiresAt =
                           now + req'[1].data.expires_in * 1000 - 60000
        /\ Leaves("store") =>
             /\ store'.tesla_access_token =
                    <<[accessToken |-> req[1].data.access_token,
                       refreshToken |-> req[1].data.refresh_token,
                       expiresAt |-> IF req[1].expiresAt = NaN THEN Absent
                                     ELSE req[1].expiresAt]>>
             /\ req'[1].pc = "clearCode2"
        /\ Leaves("clearCode2") =>
             /\ store'.tesla_current_auth_code = Absent
             /\ req'[1].pc = "products"
             /\ req'[1].accessToken = req[1].data.access_token]_vars

C9_Witness ==
    /\ deployed = "tesla_store_code"
    /\ req[1].pc = "products"
    /\ req[1].decision = "Reauthorize"
    /\ store.tesla_current_state = req[1].state
    /\ cb.pc = "done"
    /\ cb.statusCode = 200
    /\ cb.state = req[1].state
    /\ cb.code = req[1].code
    /\ exchanged[cb.code] = 1
    /\ store.tesla_current_auth_code = Absent
    /\ store.tesla_access_token # NoBlob
    /\ store.tesla_access_token[1].accessToken = req[1].accessToken
    /\ Truthy(store.tesla_access_token[1].refreshToken)
    /\ Truthy(store.tesla_access_token[1].expiresAt)

\* C10: a polling loop that finds no code in maxPollAttempts reads gives up:
\* the request answers 500, and from the persisting of the state to the
\* giving up it sends no token request, writes no token record and leaves
\* the state it stored in place.
C10_PollTimeout ==
    [][/\ (Leaves("poll") /\ ~Truthy(store.tesla_current_auth_code)) =>
            /\ UNCHANGED <<store, nextTok, exchanged>>
            /\ IF req[1].pollAttempts + 1 < maxPollAttempts
               THEN /\ req'[1].pc = "poll"
                    /\ req'[1].pollAttempts = req[1].pollAttempts + 1
               ELSE /\ req'[1].pc = "done"
                    /\ req'[1].statusCode = 500
                    /\ store.tesla_current_state = req[1].state
       /\ (Leaves("poll") /\ req'[1].pc = "done") =>
            /\ req[1].pollAttempts = maxPollAttempts - 1
            /\ ~Truthy(store.tesla_current_auth_code)
       /\ (Leaves("setState") \/ Leaves("clearCode")) =>
            /\ UNCHANGED <<nextTok, exchanged>>
            /\ store'.tesla_access_token = store.tesla_access_token]_vars

C10_Witness ==
    /\ req[1].pc = "done"
    /\ req[1].outcome = "timeout"
    /\ req[1].statusCode = 500
    /\ store.tesla_current_state = nextState - 1
    /\ store.tesla_access_token = NoBlob
    /\ \A c \in Codes : exchanged[c] = 0

\* C11: the polling loop of authorize makes at most maxPollAttempts reads of
\* the pending-code slot and leaves at the first read that finds a code, so
\* the loop always ends and every data request reaches its response,
\* whatever callbacks arrive.
C11_PollTerminates ==
    /\ [](req[1].pollAttempts < maxPollAttempts)
    /\ [][(Leaves("poll") /\ Truthy(store.tesla_current_auth_code)) =>
             req'[1].pc = "exchange"]_vars
    /\ (req[1].pc = "poll") ~> (req[1].pc # "poll")
    /\ (req[1].pc \notin {"idle", "done"}) ~> (req[1].pc = "done")

C11_Witness ==
    /\ req[1].pc = "poll"
    /\ req[1].pollAttempts = maxPollAttempts - 1
    /\ cb.pc = "done"
    /\ cb.statusCode = 400

\* C12: a Spotify data request that finds no usable token and starts the
\* authorization is answered 418 and does not call the currently-playing
\* endpoint.
C12_AuthorizationNeededIs418 ==
    [][/\ Leaves("notify") =>
            /\ req'[1].pc = "done"
            /\ req'[1].statusCode = 418
       /\ spotifyData(1) => req[1].accessToken # PendingObject]_vars

\* C13: a Tesla data request that ran out of polling attempts and one whose
\* code exchange the provider rejected are never given the same response
\* status and body.
C13_TimeoutDistinctFromRejection ==
    \A p, q \in Requests :
        (req[p].outcome = "timeout" /\ req[q].outcome = "exchangeFailed") =>
            <<req[p].statusCode, req[p].body>> # <<req[q].statusCode, req[q].body>>

\* C14: an authorization-code exchange answered with a non-success response
\* or with a body without access_token writes nothing to the store and is
\* reported (authorize returns null and the data request answers 500; the
\* callbacks return null or an error response); token data is written only for
\* an ok answer with an access token; and after the failure in authorize the
\* stored record is still one on which the evaluator reauthorizes.
C14_FailedExchangeWritesNothing ==
    [][/\ (Leaves("exchange") /\ req'[1].pc # "store") =>
            /\ store' = store
            /\ req'[1].pc = "done"
            /\ req'[1].statusCode = 500
            /\ \/ store'.tesla_access_token = NoBlob
               \/ /\ ~Truthy(store'.tesla_access_token[1].refreshToken)
                  /\ \/ ~Truthy(store'.tesla_access_token[1].accessToken)
                     \/ store'.tesla_access_token[1].expiresAt <= now
       /\ (Tesla /\ cb.pc = "exchange" /\ cb' # cb /\ cb'.pc # "store") =>
            /\ store' = store
            /\ cb'.pc = "done"
            /\ cb'.statusCode \in {0, 400}
       /\ (deployed = "spotify" /\ cb.pc = "exchange" /\ cb' # cb
             /\ cb'.pc # "writeToken") =>
            /\ store' = store
            /\ cb'.pc = "done"
            /\ cb'.statusCode \in {0, 500}
       /\ (Leaves("store") /\ store'.tesla_access_token # store.tesla_access_token) =>
            (req[1].data.kind = "ok" /\ Truthy(req[1].data.access_token))
       /\ (cb' # cb /\ cb.pc \in {"store", "writeToken"}) =>
            (cb.data.kind = "ok" /\ Truthy(cb.data.access_token))]_vars

C14_Witness ==
    /\ deployed = "tesla_store_code"
    /\ req[1].pc = "done"
    /\ req[1].outcome = "exchangeFailed"
    /\ req[1].statusCode = 500
    /\ exchanged[1] = 1
    /\ store.tesla_access_token = NoBlob

\* C15: a store operation that fails during a data request never leaves the
\* handler as an exception: the request ends in a response.
C15_StoreFailureHandled == \A p \in Requests : req[p].outcome # "storeThrew"

\* C16: a refresh that fails in any way (non-ok answer, body without token,
\* malformed body, network exception) does not throw out of the token path:
\* the request goes on to clear the stored token record.
C16_FailedRefreshNeverThrows ==
    [][/\ (Leaves("refresh") /\ req'[1].pc # "refreshStore") =>
            req'[1].pc = "clear"
       /\ (Leaves("spotifyRefresh") /\ req'[1].pc # "writeToken") =>
            /\ req'[1].outcome # "threw"
            /\ req'[1].pc = "clearToken"]_vars

\* C17: every callback invocation ends with a response that carries a status
\* code, in every branch.
C17_CallbackAlwaysResponds == cb.pc = "done" => cb.statusCode # 0

\* C18: when the data endpoint answers a request that carries a cached access
\* token with a 401, the handler leaves the store without that token in usable
\* form, so that the next data request does not take UseCached with it.
C18_RejectedTokenInvalidated ==
    [][(/\ req[1].pc \in {"products", "playing"}
        /\ req[1].decision = "UseCached"
        /\ req'[1].outcome = "unauthorized") =>
           /\ Tesla =>
                ~(/\ store'.tesla_access_token # NoBlob
                  /\ store'.tesla_access_token[1].accessToken = req[1].accessToken
                  /\ store'.tesla_access_token[1].expiresAt > now)
           /\ deployed = "spotify" =>
                ~(/\ store'.spotify_access_token # NoBlob
                  /\ store'.spotify_access_token[1].access_token =
                         req[1].accessToken
                  /\ Gt(readExpiresAt(store'.spotify_expires_at), now))]_vars

\* C19: without the client id or without the client secret a data request is
\* answered 500 in its first step: it never waits for a store operation or a
\* provider response, writes nothing, sends no token request and generates no
\* state.
C19_NoCredentialsFailsFast ==
    /\ []((~Truthy(env.CLIENT_ID) \/ ~Truthy(env.CLIENT_SECRET)) =>
            /\ req[1].pc \in {"idle", "done"}
            /\ (req[1].pc = "done" /\ Truthy(req[1].apiKey)
                  /\ req[1].apiKey = env.API_KEY) => req[1].statusCode = 500
            /\ req[1].state = Absent)
    /\ [][((~Truthy(env.CLIENT_ID) \/ ~Truthy(env.CLIENT_SECRET))
            /\ req'[1] # req[1]) =>
              UNCHANGED <<store, nextState, nextTok, exchanged>>]_vars

\* A request was answered 500 with the client id set and the secret missing.
C19_Witness ==
    /\ Truthy(env.CLIENT_ID)
    /\ ~Truthy(env.CLIENT_SECRET)
    /\ req[1].pc = "done"
    /\ req[1].statusCode = 500

\* The Tesla handlers compute the expiry when the token response arrives and
\* write it in one blob with the access token of that response.
TeslaWriteDerived ==
    /\ (/\ req'[1].pc \in {"store", "refreshStore"}
        /\ req'[1].pc # req[1].pc
        /\ req'[1].data.expires_in # NaN) =>
          req'[1].expiresAt =
              now + (req'[1].data.expires_in * 1000) - 60000
    /\ (cb.pc = "exchange" /\ cb'.pc = "store" /\ cb'.data.expires_in # NaN) =>
          cb'.expiresAt = now + (cb'.data.expires_in * 1000) - 60000
    /\ (/\ store'.tesla_access_token # store.tesla_access_token
        /\ store'.tesla_access_token # NoBlob) =>
          \/ /\ req[1].pc \in {"store", "refreshStore"}
             /\ req'[1].pc # req[1].pc
             /\ store'.tesla_access_token[1].accessToken =
                    req[1].data.access_token
             /\ req[1].data.expires_in # NaN =>
                    store'.tesla_access_token[1].expiresAt = req[1].expiresAt
          \/ /\ cb.pc = "store"
             /\ cb'.pc # cb.pc
             /\ store'.tesla_access_token[1].accessToken = cb.data.access_token
             /\ cb.data.expires_in # NaN =>
                    store'.tesla_access_token[1].expiresAt = cb.expiresAt

\* The expiry a Spotify record must carry for the access token t: what the
\* response that brought t announced, less the margin.
DerivedExpiry(t) == ghost.announced[t] - 60000

\* A Spotify handler writes the expiry key: the number written is derived
\* from the response whose access token that handler stores.
SpotifyWriteDerived ==
    /\ (Leaves("writeExpires") /\ req[1].data.expires_in # NaN) =>
          readExpiresAt(store'.spotify_expires_at) =
              DerivedExpiry(req[1].data.access_token)
    /\ (cb.pc = "writeExpires" /\ cb' # cb /\ cb.data.expires_in # NaN) =>
          readExpiresAt(store'.spotify_expires_at) =
              DerivedExpiry(cb.data.access_token)

\* A data request takes an access token from the cache: the current time is
\* not later than 60 seconds before the expiry announced for that token,
\* which for Tesla is the expiresAt of the record that holds the token.
CachedUseBeforeExpiry ==
    /\ (getValidTeslaToken(1) /\ req'[1].decision = "UseCached") =>
          /\ req'[1].accessToken = store.tesla_access_token[1].accessToken
          /\ now <= store.tesla_access_token[1].expiresAt
    /\ (/\ Leaves("readExpires")
        /\ req'[1].decision = "UseCached"
        /\ ghost.announced[req'[1].accessToken] # NaN) =>
          now <= DerivedExpiry(req'[1].accessToken)

\* C20: every write of a token record sets the expiry to the time of the
\* write + expires_in * 1000 - 60000, with the expires_in of the response that
\* brought the stored access token; and a token taken from the cache is never
\* used later than 60 seconds before the expiry the provider announced for it.
C20_ExpiryDerivedAtWrite ==
    [][TeslaWriteDerived /\ SpotifyWriteDerived /\ CachedUseBeforeExpiry]_vars

\* C21: at the step that makes the authorization URL of an attempt available
\* (Tesla: authorize logs it on entry; Spotify: it is logged and pushed once
\* the write of the state has landed), the store holds the state the URL
\* carries.
C21_StatePersistedBeforeUrl ==
    [][/\ (req'[1].pc = "setState" /\ req'[1] # req[1]) =>
            store'.tesla_current_state = req'[1].state
       /\ (req'[1].pc = "notify" /\ req'[1] # req[1]) =>
            store'.spotify_auth_state = req'[1].state]_vars

\* The keys that hold a provider's token record are left as they are.
TokenRecordKept ==
    /\ store'.tesla_access_token = store.tesla_access_token
    /\ store'.spotify_access_token = store.spotify_access_token
    /\ store'.spotify_refresh_token = store.spotify_refresh_token
    /\ store'.spotify_expires_at = store.spotify_expires_at

Refreshed(p) ==
    /\ req[p].pc = "products"
    /\ req[p].decision = "Refresh"
    /\ Truthy(req[p].refreshToken)

\* C23: once two concurrent data requests have both refreshed successfully,
\* each returns the access token of its own provider response, and the store
\* holds one record whose three fields all come from one of the two
\* invocations (its access token, its response's refresh token or else the
\* one it read, the expiry it computed): never no record, never a mix.
C23_DoubleRefreshLastWriterWins ==
    (\A p \in Requests : Refreshed(p)) =>
        /\ \A p \in Requests :
              /\ Truthy(req[p].accessToken)
              /\ req[p].accessToken = req[p].data.access_token
        /\ store.tesla_access_token # NoBlob
        /\ \E w \in Requests :
              /\ store.tesla_access_token[1].accessToken = req[w].data.access_token
              /\ store.tesla_access_token[1].refreshToken =
                    (IF Truthy(req[w].data.refresh_token)
                     THEN req[w].data.refresh_token ELSE req[w].refreshToken)
              /\ Truthy(store.tesla_access_token[1].refreshToken)
              /\ req[w].data.expires_in # NaN =>
                    store.tesla_access_token[1].expiresAt = req[w].expiresAt

\* Both requests read the same expired record, both refreshed successfully
\* with different tokens, and the store holds the second request's record.
C23_Witness ==
    /\ \A p \in Requests : Refreshed(p) /\ req[p].refreshToken = OldTok
    /\ req[1].accessToken # req[2].accessToken
    /\ store.tesla_access_token[1].accessToken = req[2].accessToken

\* C24: the refresh request a data request sends carries the refresh token
\* that the same invocation read from the store: for Tesla the one in the
\* record it has just read, for Spotify the one its read of the refresh-token
\* key returned; it is never an empty value.
C24_RefreshTokenFromRecord ==
    [][/\ (req[1].pc \in {"idle", "done"} /\ req'[1].pc = "refresh") =>
            /\ store.tesla_access_token # NoBlob
            /\ req'[1].refreshToken = store.tesla_access_token[1].refreshToken
            /\ Truthy(req'[1].refreshToken)
       /\ Leaves("readRefresh") =>
            req'[1].refreshToken = store.spotify_refresh_token
       /\ (req[1].pc = "readExpires" /\ req'[1].pc = "spotifyRefresh") =>
            /\ req'[1].refreshToken = req[1].refreshToken
            /\ Truthy(req'[1].refreshToken)]_vars

\* A Tesla refresh request is pending with the refresh token of the stored
\* record, which an earlier refresh kept from the record before it.
C24_Witness ==
    /\ Tesla
    /\ req[1].pc = "refresh"
    /\ store.tesla_access_token # NoBlob
    /\ req[1].refreshToken = store.tesla_access_token[1].refreshToken
    /\ store.tesla_access_token[1].accessToken # req[1].refreshToken

\* C25: the store-the-code callback, invoked with the stored state and a
\* code, writes that code to the pending-code slot and nothing else and answers
\* 200; invoked with the stored state and no code it answers 400 and writes
\* nothing.
C25_StoreCodeCallbackFrame ==
    [][deployed = "tesla_store_code" =>
        /\ (/\ cb.pc \in {"idle", "done"}
            /\ cb' # cb
            /\ Truthy(cb'.state)
            /\ cb'.state = store.tesla_current_state) =>
              /\ store' = store
              /\ Truthy(cb'.code) => cb'.pc = "setCode"
              /\ ~Truthy(cb'.code) => (cb'.pc = "done" /\ cb'.statusCode = 400)
        /\ (cb.pc = "setCode" /\ cb' # cb) =>
              /\ cb'.pc = "done"
              /\ cb'.statusCode = 200
              /\ store'.tesla_current_auth_code = cb.code
              /\ store'.tesla_access_token = store.tesla_access_token
              /\ store'.tesla_current_state = store.tesla_current_state
              /\ store' = [store EXCEPT !.tesla_current_auth_code = cb.code]]_vars

\* The callback answered 200 over a stored token record: the slot holds its
\* code and the expected state is still the one it matched.
C25_Witness ==
    /\ deployed = "tesla_store_code"
    /\ cb.pc = "done"
    /\ cb.statusCode = 200
    /\ store.tesla_current_auth_code = cb.code
    /\ store.tesla_current_state = cb.state
    /\ store.tesla_access_token # NoBlob

\* C27: a data request whose x-api-key header is missing or is not the
\* configured key is answered 401 in its first step, which leaves the store
\* unwritten, generates no state and sends no token request; no request that
\* waits for a store operation or a provider response came with such a
\* header; and with no key configured no request gets past its first step.
C27_BadApiKeyRejected ==
    /\ [][(/\ req[1].pc \in {"idle", "done"}
           /\ req'[1] # req[1]
           /\ (~Truthy(req'[1].apiKey) \/ req'[1].apiKey # env.API_KEY)) =>
              /\ req'[1].pc = "done"
              /\ req'[1].statusCode = 401
              /\ UNCHANGED <<store, nextState, nextTok, exchanged>>]_vars
    /\ [](req[1].pc \notin {"idle", "done"} =>
            (Truthy(req[1].apiKey) /\ req[1].apiKey = env.API_KEY))
    /\ [](~Truthy(env.API_KEY) =>
            /\ req[1].pc \in {"idle", "done"}
            /\ req[1].pc = "done" => req[1].statusCode = 401)

\* With no key configured, a request that came without the header was
\* answered 401.
C27_Witness ==
    /\ ~Truthy(env.API_KEY)
    /\ req[1].pc = "done"
    /\ req[1].apiKey = Absent
    /\ req[1].statusCode = 401

\* C28: the code a polling authorize takes from the pending-code slot, and
\* goes on to exchange, was written by a callback that carried the state this
\* same invocation generated.  Only callbacks write a code, so when the last
\* callback has finished with 200 the code in the slot is the one it wrote.
C28_CodeOfOwnAttempt ==
    [][(/\ Leaves("poll")
        /\ req'[1].pc = "exchange"
        /\ cb.pc = "done"
        /\ cb.statusCode = 200) => cb.state = req[1].state]_vars

\* C29: a provider has one stored expected state; every authorization attempt
\* replaces it with the state it has just generated, and a callback that
\* carries the state of an earlier attempt once a later attempt has stored
\* its own is answered 400.  States are numbered in the order of generation.
C29_TeslaStaleStateRejected ==
    [][/\ Leaves("setState") =>
            /\ store'.tesla_current_state = req[1].state
            /\ store'.tesla_current_state # store.tesla_current_state
       /\ (/\ Tesla
           /\ cb.pc \in {"idle", "done"}
           /\ cb' # cb
           /\ Truthy(store.tesla_current_state)
           /\ cb'.state \in 1 .. (store.tesla_current_state - 1)) =>
            /\ cb'.pc = "done"
            /\ cb'.statusCode = 400]_vars

C29_SpotifyStaleStateRejected ==
    [][/\ Leaves("spotifySetState") =>
            /\ store'.spotify_auth_state = req[1].state
            /\ store'.spotify_auth_state # store.spotify_auth_state
       /\ (/\ deployed = "spotify"
           /\ cb.pc \in {"idle", "done"}
           /\ cb' # cb
           /\ Truthy(store.spotify_auth_state)
           /\ cb'.state \in 1 .. (store.spotify_auth_state - 1)) =>
            /\ cb'.pc = "done"
            /\ cb'.statusCode = 400]_vars

C29_StaleStateRejected ==
    C29_TeslaStaleStateRejected /\ C29_SpotifyStaleStateRejected

\* C30: a failed refresh that started from an older record does not destroy
\* the record a concurrent invocation has persisted since from the provider's
\* answer to its own refresh or exchange: when the losing invocation clears,
\* that record stays in the store.
C30_FreshRecordSurvivesClear ==
    [][\A p, w \in Requests :
          (/\ p # w
           /\ req[p].pc = "clear"
           /\ req'[p] # req[p]
           /\ store.tesla_access_token # NoBlob
           /\ Truthy(req[w].data.access_token)
           /\ store.tesla_access_token[1].accessToken =
                 req[w].data.access_token) =>
              store'.tesla_access_token = store.tesla_access_token]_vars

\* C31: for Spotify the stored expiry and the stored access token come from
\* the same provider response in every reachable state, and a data request
\* that takes the cached token has read the expiry written for that token.
StoredPairOfOneResponse ==
    (/\ store.spotify_access_token # NoBlob
     /\ Truthy(store.spotify_access_token[1].access_token)
     /\ store.spotify_expires_at # <<>>
     /\ ghost.announced[store.spotify_access_token[1].access_token] # NaN) =>
        readExpiresAt(store.spotify_expires_at) =
            DerivedExpiry(store.spotify_access_token[1].access_token)

ReadPairOfOneResponse ==
    (/\ Leaves("readExpires")
     /\ req'[1].decision = "UseCached"
     /\ ghost.announced[req'[1].accessToken] # NaN) =>
        readExpiresAt(store.spotify_expires_at) =
            DerivedExpiry(req'[1].accessToken)

C31_SpotifyPairOfOneResponse ==
    [](StoredPairOfOneResponse) /\ [][ReadPairOfOneResponse]_vars

\* C32: the token getValidTeslaToken hands to the data handler is an access
\* token the provider issued, and it was either read from the store's record
\* before that record's expiry or written to the store by this invocation
\* before it returned; the data endpoint is called with that token only.
C32_ReturnedTokenProvenance ==
    [][/\ Leaves("store") =>
            /\ store'.tesla_access_token # NoBlob
            /\ store'.tesla_access_token[1].accessToken = req[1].data.access_token
            /\ req'[1].pc = "clearCode2"
            /\ req'[1].data = req[1].data
       /\ (Tesla /\ req[1].pc # "products" /\ req'[1].pc = "products") =>
            /\ Truthy(req'[1].accessToken)
            /\ req'[1].accessToken \in 1 .. (nextTok - 1)
            /\ \/ /\ req[1].pc \in {"idle", "done"}
                  /\ store.tesla_access_token # NoBlob
                  /\ store.tesla_access_token[1].accessToken = req'[1].accessToken
                  /\ Gt(store.tesla_access_token[1].expiresAt, now)
               \/ /\ req[1].pc = "refreshStore"
                  /\ store'.tesla_access_token # NoBlob
                  /\ store'.tesla_access_token[1].accessToken =
                        req'[1].accessToken
               \/ /\ req[1].pc = "clearCode2"
                  /\ req'[1].accessToken = req[1].data.access_token
       /\ (Tesla /\ req[1].pc = "products" /\ req'[1] # req[1]) =>
            req'[1].pc = "done"]_vars

C32_Witness ==
    /\ deployed = "tesla_store_code"
    /\ req[1].pc = "products"
    /\ req[1].decision = "UseCached"
    /\ req[1].accessToken = 2
    /\ store.tesla_access_token # NoBlob
    /\ store.tesla_access_token[1].accessToken = 2
    /\ nextTok = 3

\* C33: the record a callback persists after a successful exchange (Tesla
\* direct exchange, Spotify callback) is taken by the evaluator of the next
\* data request as the cached token: while now is before the expiry that was
\* written, the request uses the stored access token, sends no refresh and
\* opens no authorization session.
CallbackPersisted == cb.pc = "done" /\ cb.statusCode = 200

C33_WriteThenReadRoundTrip ==
    [][/\ directStore =>
            /\ store'.tesla_access_token # NoBlob
            /\ store'.tesla_access_token[1].accessToken = cb.data.access_token
            /\ Truthy(cb.data.access_token)
            /\ cb.expiresAt # NaN =>
                  store'.tesla_access_token[1].expiresAt = cb.expiresAt
       /\ (/\ getValidTeslaToken(1)
           /\ deployed = "tesla_direct"
           /\ CallbackPersisted
           /\ store.tesla_access_token # NoBlob
           /\ now < store.tesla_access_token[1].expiresAt) =>
            /\ req'[1].decision = "UseCached"
            /\ req'[1].pc = "products"
            /\ req'[1].accessToken = store.tesla_access_token[1].accessToken
            /\ UNCHANGED <<store, nextState, nextTok>>
       /\ callbackWriteToken =>
            /\ store'.spotify_access_token # NoBlob
            /\ store'.spotify_access_token[1].access_token = cb.data.access_token
            /\ Truthy(cb.data.access_token)
       /\ (/\ readExpires(1)
           /\ CallbackPersisted
           /\ store.spotify_access_token # NoBlob
           /\ req[1].tokenData = store.spotify_access_token
           /\ ghost.expiresNumber \notin {Absent, NaN}
           /\ now < ghost.expiresNumber) =>
            /\ req'[1].decision = "UseCached"
            /\ req'[1].pc = "playing"
            /\ req'[1].accessToken = store.spotify_access_token[1].access_token
            /\ UNCHANGED <<store, nextState, nextTok>>]_vars

C33_Witness ==
    /\ deployed = "spotify"
    /\ CallbackPersisted
    /\ req[1].pc = "playing"
    /\ req[1].decision = "UseCached"
    /\ store.spotify_access_token # NoBlob
    /\ req[1].accessToken = store.spotify_access_token[1].access_token
    /\ now < ghost.expiresNumber
    /\ nextState = 1

====
